---- MODULE Spec2Model ----
(***************************************************************************)
(* Model of the query-resolution pipeline of Web-Browser-Query-Agent:      *)
(*   - the ChromaDB semantic cache        (src/cache_chromadb.py)          *)
(*   - the multi-engine web search        (src/web_search.py)              *)
(*   - the web pipeline, streaming and not (src/app.py)                    *)
(*   - the summarizer, as the pipeline calls it (src/summarizer.py)        *)
(*   - single functions on their own: the summarizer's truncation and      *)
(*     trim (src/summarizer.py), the URL filter (src/web_search.py), the   *)
(*     pickle cache of the command line (src/cache.py)                     *)
(*   - the two web handlers side by side on the same inputs (src/app.py)   *)
(* Similarities and cosine distances are counted in quarters (0.25), so    *)
(* the default threshold 0.75 is 3 and the similarity 1.0 is 4.            *)
(***************************************************************************)
EXTENDS Integers, Sequences, FiniteSets, TLC

VARIABLES
    cache,      \* the ChromaDB collection: a set of [id, query, summary]
    apiLast,    \* the last direct cache call and what it returned
    clock,      \* seconds elapsed (search specification)
    searchLog,  \* one record per finished search call: first/last request time
    lastSearch, \* what the last search_multi_engine call did and returned
    run,        \* the pipeline run in progress (pipeline specification)
    fcall       \* a call of one function on its own: arguments and result

vars == <<cache, apiLast, clock, searchLog, lastSearch, run, fcall>>

(***************************************************************************)
(* Bounds of the model.                                                    *)
(***************************************************************************)
MaxEntries  == 2   \* entries the collection may hold
MaxRaw      == 6   \* quality URLs one provider may return (the code: up to 10)
MaxSearches == 2   \* consecutive search calls that are timed
MaxGap      == 1   \* seconds a caller may idle before its next search call
MaxConcUrls == 2   \* URLs a search returns to one of two concurrent callers

(***************************************************************************)
(* Program constants.                                                      *)
(***************************************************************************)
One              == 4   \* the 1 of "similarity = 1 - distance", in quarters
DefaultThreshold == 3   \* threshold=0.75
max_results      == 5   \* search_duckduckgo(query, max_results=5, ...)
max_retries      == 3   \* search_duckduckgo(..., max_retries=3), never read
SleepMin         == 1   \* time.sleep(random.uniform(1, 3))
SleepMax         == 3
min_interval     == 2   \* the minimum interval of the specification's throttle

(***************************************************************************)
(* Inputs.                                                                 *)
(***************************************************************************)
Queries   == {"paris", "Paris", "rome"}
\* the query of callers that all ask for the same one
SameQuery == {"paris"}
Summaries == {"", "s1", "s2"}
\* what summarize_text may return in a run of the pipeline
SummarizerOutputs == {"", "s1"}
Ids       == 1..MaxEntries
Thresholds == 0..One

\* model.encode([query])[0]: the embedding, a point whose distance to another
\* point stands for the cosine distance of the two vectors.
Embed(q) ==
    CASE q = "paris" -> 0
      [] q = "Paris" -> 1
      [] q = "rome"  -> 6

Abs(x) == IF x < 0 THEN -x ELSE x

\* The cosine distance ChromaDB reports ("hnsw:space": "cosine"), in 0..2.
CosineDistance(a, b) == Abs(a - b)

(***************************************************************************)
(* The semantic cache.                                                     *)
(***************************************************************************)
NoneResult == [found |-> FALSE, summary |-> "", similarity |-> 0,
               raised |-> FALSE]

\* collection.query(query_embeddings=[...], n_results=1): the entries at the
\* least distance; which of several equally near entries is returned is the
\* index's choice.
Nearest(c, q) ==
    {e \in c : \A f \in c :
        CosineDistance(Embed(q), Embed(e.query))
            <= CosineDistance(Embed(q), Embed(f.query))}

\* The comparison of find_similar_query with ">" in place of ">=".
ThresholdMetStrict(similarity, threshold) == similarity > threshold

\* find_similar_query returning the nearest entry whatever its similarity.
ThresholdIgnored(similarity, threshold) == TRUE

\* "if similarity >= threshold"
ThresholdMet(similarity, threshold) == similarity >= threshold

\* find_similar_query taking the distance for the similarity.
FindSimilarQueryNoConvert(c, new_query, threshold, storeFails, e) ==
    IF storeFails THEN NoneResult
    ELSE IF c = {} THEN NoneResult
    ELSE LET distance   == CosineDistance(Embed(new_query), Embed(e.query))
             similarity == distance
         IN  IF ThresholdMet(similarity, threshold)
             THEN [found |-> TRUE, summary |-> e.summary,
                   similarity |-> similarity, raised |-> FALSE]
             ELSE NoneResult

\* find_similar_query without its "except": the store's exception reaches
\* the caller.
FindSimilarQueryRaises(c, new_query, threshold, storeFails, e) ==
    IF storeFails THEN [NoneResult EXCEPT !.raised = TRUE]
    ELSE IF c = {} THEN NoneResult
    ELSE LET distance   == CosineDistance(Embed(new_query), Embed(e.query))
             similarity == One - distance
         IN  IF ThresholdMet(similarity, threshold)
             THEN [found |-> TRUE, summary |-> e.summary,
                   similarity |-> similarity, raised |-> FALSE]
             ELSE NoneResult

\* ChromaDBCache.find_similar_query, given whether the store raised and the
\* entry the index returned (any value when the collection is empty).
FindSimilarQuery(c, new_query, threshold, storeFails, e) ==
    IF storeFails THEN NoneResult
    ELSE IF c = {} THEN NoneResult
    ELSE LET distance   == CosineDistance(Embed(new_query), Embed(e.query))
             similarity == One - distance
         IN  IF ThresholdMet(similarity, threshold)
             THEN [found |-> TRUE, summary |-> e.summary,
                   similarity |-> similarity, raised |-> FALSE]
             ELSE NoneResult

\* The outcomes of one lookup: one per entry the index may return.
Lookups(c, q, threshold, storeFails) ==
    IF c = {} \/ storeFails
    THEN {FindSimilarQuery(c, q, threshold, storeFails, NoneResult)}
    ELSE {FindSimilarQuery(c, q, threshold, storeFails, e) : e \in Nearest(c, q)}

\* An insert that replaces the entries stored for the same query text.
AddToCacheUpsert(c, query, summary, query_id, storeFails) ==
    IF storeFails THEN c
    ELSE {e \in c : e.query # query}
            \cup {[id |-> query_id, query |-> query, summary |-> summary]}

\* ChromaDBCache.add_to_cache: a fresh id, collection.add; an exception is
\* printed and swallowed.
AddToCache(c, query, summary, query_id, storeFails) ==
    IF storeFails THEN c
    ELSE c \cup {[id |-> query_id, query |-> query, summary |-> summary]}

\* What add_to_cache returns: it has no return statement, on either path.
AddToCacheReturn(storeFails) == "None"

FreeIds(c) == Ids \ {e.id : e \in c}

\* delete_cache_item: collection.delete(ids=[query_id]).
DeleteCacheItem(c, query_id, storeFails) ==
    IF storeFails THEN c ELSE {e \in c : e.id # query_id}

\* What delete_cache_item returns: True, or False from its "except".
DeleteCacheItemReturn(storeFails) == IF storeFails THEN "False" ELSE "True"

\* ChromaDBCache.clear_cache: delete and recreate the collection.
ClearCache(c, storeFails) == IF storeFails THEN c ELSE {}

\* The characters of the query texts, and of the search terms of the
\* administrative routes.
Chars(q) ==
    CASE q = "paris" -> <<"p", "a", "r", "i", "s">>
      [] q = "Paris" -> <<"P", "a", "r", "i", "s">>
      [] q = "rome"  -> <<"r", "o", "m", "e">>

SearchTerms == {<<>>, <<"P", "A", "R">>, <<"i", "s">>, <<"o", "m">>,
                <<"r">>, <<"x">>}

\* str.lower(), on the letters used here.
LowerChar(ch) ==
    CASE ch = "P" -> "p"
      [] ch = "A" -> "a"
      [] ch = "R" -> "r"
      [] OTHER    -> ch

Lower(s) == [k \in 1..Len(s) |-> LowerChar(s[k])]

\* "sub in s" of two strings.
Contains(sub, s) ==
    \E k \in 0..(Len(s) - Len(sub)) : SubSeq(s, k + 1, k + Len(sub)) = sub

\* view_all_cache: every item of the collection, or [] from its "except".
ViewAllCache(c, storeFails) == IF storeFails THEN {} ELSE c

\* search_cache: the listed items whose query contains the term, both
\* lowered.
SearchCache(c, search_term, storeFails) ==
    {item \in ViewAllCache(c, storeFails) :
        Contains(Lower(search_term), Lower(Chars(item.query)))}

\* delete_cache_by_query: delete_cache_item on every item search_cache
\* found, counting the calls that returned True.  failing: the ids whose
\* delete the store refuses.
DeleteCacheByQuery(c, query_text, listFails, failing) ==
    LET matching_items == SearchCache(c, query_text, listFails)
        deleted == {item \in matching_items : item.id \notin failing}
    IN  [cache |-> c \ deleted, deleted_count |-> Cardinality(deleted)]

NoAdd == [valid |-> FALSE, summary |-> ""]

NoCall == [op |-> "none", query |-> "", summary |-> "", threshold |-> 0,
           ok |-> TRUE, res |-> NoneResult, afterAdd |-> NoAdd,
           ret |-> "none", term |-> <<>>, before |-> {}, count |-> 0]

(***************************************************************************)
(* The cache, called directly (installation self-test, migration, the      *)
(* /cache-* routes).  apiLast.ok: the store did not raise; apiLast.ret:    *)
(* what add_to_cache or delete_cache_item returned.  For a lookup,         *)
(* afterAdd tells whether the call just before it was an add_to_cache of   *)
(* the same query that the store accepted, and with what summary.  For     *)
(* delete_cache_by_query: the term, the collection before the call and the *)
(* count returned.                                                         *)
(***************************************************************************)
ApiAdd(q, s) ==
    /\ Cardinality(cache) < MaxEntries
    /\ \E query_id \in FreeIds(cache), storeFails \in BOOLEAN :
        /\ cache' = AddToCache(cache, q, s, query_id, storeFails)
        /\ apiLast' = [NoCall EXCEPT !.op = "add", !.query = q,
                                     !.summary = s, !.ok = ~storeFails,
                                     !.ret = AddToCacheReturn(storeFails)]
    /\ UNCHANGED <<clock, searchLog, lastSearch, run, fcall>>

ApiFind(q, threshold) ==
    /\ \E storeFails \in BOOLEAN :
        \E r \in Lookups(cache, q, threshold, storeFails) :
            apiLast' = [NoCall EXCEPT
                !.op = "find", !.query = q, !.threshold = threshold,
                !.ok = ~storeFails, !.res = r,
                !.afterAdd =
                    IF apiLast.op = "add" /\ apiLast.ok /\ apiLast.query = q
                    THEN [valid |-> TRUE, summary |-> apiLast.summary]
                    ELSE NoAdd]
    /\ UNCHANGED <<cache, clock, searchLog, lastSearch, run, fcall>>

ApiDeleteItem(query_id) ==
    /\ \E storeFails \in BOOLEAN :
        /\ cache' = DeleteCacheItem(cache, query_id, storeFails)
        /\ apiLast' = [NoCall EXCEPT
                        !.op = "delete", !.ok = ~storeFails,
                        !.ret = DeleteCacheItemReturn(storeFails)]
    /\ UNCHANGED <<clock, searchLog, lastSearch, run, fcall>>

ApiDeleteByQuery(query_text) ==
    /\ \E listFails \in BOOLEAN, failing \in SUBSET Ids :
        LET r == DeleteCacheByQuery(cache, query_text, listFails, failing)
        IN  /\ cache' = r.cache
            /\ apiLast' = [NoCall EXCEPT
                            !.op = "delete_by_query", !.term = query_text,
                            !.before = cache, !.count = r.deleted_count,
                            !.ok = ~listFails /\ failing = {}]
    /\ UNCHANGED <<clock, searchLog, lastSearch, run, fcall>>

ApiClear ==
    /\ \E storeFails \in BOOLEAN :
        /\ cache' = ClearCache(cache, storeFails)
        /\ apiLast' = [NoCall EXCEPT !.op = "clear", !.ok = ~storeFails]
    /\ UNCHANGED <<clock, searchLog, lastSearch, run, fcall>>

(***************************************************************************)
(* The retrieval engine: search_multi_engine.                              *)
(***************************************************************************)
search_methods == <<"DuckDuckGo HTML", "Google Scrape">>

\* What one provider request may meet: HTTP 200 with n quality URLs left by
\* filter_quality_urls, another status, or an exception of the transport.
ProviderOutcomes ==
    {[kind |-> "ok", n |-> n] : n \in 0..MaxRaw}
        \cup {[kind |-> "status", n |-> 0], [kind |-> "exc", n |-> 0]}

Transient(out) == out.kind \in {"status", "exc"}

Urls(n) == [i \in 1..n |-> i]

Take(s, n) == SubSeq(s, 1, IF Len(s) < n THEN Len(s) ELSE n)

\* The try block of search_duckduckgo_lite / search_google_scrape: the
\* filtered URLs on status 200, [] on another status, or an exception.
ProviderBody(out) ==
    [raised |-> out.kind = "exc",
     urls   |-> IF out.kind = "ok" THEN Urls(out.n) ELSE <<>>]

\* search_duckduckgo_lite / search_google_scrape: "except Exception" prints
\* and returns [], so nothing is raised to search_multi_engine.
SearchFunc(out) ==
    LET body == ProviderBody(out)
    IN  IF body.raised THEN [raised |-> FALSE, urls |-> <<>>] ELSE body

\* The loop of search_multi_engine returning at the first provider, whatever
\* it found.
SearchLoopNoFallback(i, outs, sleeps, calls, t) ==
    IF i > Len(search_methods)
    THEN [urls |-> <<>>, calls |-> calls, elapsed |-> t, raised |-> FALSE]
    ELSE LET r      == SearchFunc(outs[i])
             calls2 == Append(calls, [provider |-> search_methods[i],
                                      at |-> t, out |-> outs[i]])
         IN  [urls |-> Take(r.urls, max_results), calls |-> calls2,
              elapsed |-> t, raised |-> FALSE]

\* The loop of search_multi_engine giving up at the first provider whose
\* request failed.
RECURSIVE SearchLoopStopOnFailure(_, _, _, _, _)
SearchLoopStopOnFailure(i, outs, sleeps, calls, t) ==
    IF i > Len(search_methods)
    THEN [urls |-> <<>>, calls |-> calls, elapsed |-> t, raised |-> FALSE]
    ELSE LET r      == SearchFunc(outs[i])
             calls2 == Append(calls, [provider |-> search_methods[i],
                                      at |-> t, out |-> outs[i]])
         IN  IF ~r.raised /\ r.urls # <<>>
             THEN [urls |-> Take(r.urls, max_results), calls |-> calls2,
                   elapsed |-> t, raised |-> FALSE]
             ELSE IF Transient(outs[i])
             THEN [urls |-> <<>>, calls |-> calls2, elapsed |-> t,
                   raised |-> FALSE]
             ELSE SearchLoopStopOnFailure(i + 1, outs, sleeps, calls2,
                                          t + sleeps[i])

\* The loop of search_multi_engine from provider i on: t is the time since
\* the call began, sleeps[i] the pause drawn after provider i yielded nothing.
\* "if results:" returns results[:max_results]; the else branch and the
\* except branch both fall to time.sleep(random.uniform(1, 3)) and the next
\* provider; after the loop, return [].
RECURSIVE SearchLoop(_, _, _, _, _)
SearchLoop(i, outs, sleeps, calls, t) ==
    IF i > Len(search_methods)
    THEN [urls |-> <<>>, calls |-> calls, elapsed |-> t, raised |-> FALSE]
    ELSE LET r      == SearchFunc(outs[i])
             calls2 == Append(calls, [provider |-> search_methods[i],
                                      at |-> t, out |-> outs[i]])
         IN  IF ~r.raised /\ r.urls # <<>>
             THEN [urls |-> Take(r.urls, max_results), calls |-> calls2,
                   elapsed |-> t, raised |-> FALSE]
             ELSE SearchLoop(i + 1, outs, sleeps, calls2, t + sleeps[i])

\* search_multi_engine(query, max_results) and its legacy name
\* search_duckduckgo, which passes max_results on and drops max_retries.
SearchMultiEngine(outs, sleeps) == SearchLoop(1, outs, sleeps, <<>>, 0)

NoSearch == [urls |-> <<>>, calls |-> <<>>, elapsed |-> 0, raised |-> FALSE]

ProviderRuns == [1..Len(search_methods) -> ProviderOutcomes]
SleepRuns    == [1..Len(search_methods) -> SleepMin..SleepMax]

\* Everything one call of search_multi_engine may do.
SearchResults ==
    {SearchMultiEngine(outs, sleeps) :
        outs \in ProviderRuns, sleeps \in SleepRuns}

\* The searches of the two callers return at most MaxConcUrls URLs.
ConcSearchResults == {sr \in SearchResults : Len(sr.urls) <= MaxConcUrls}

\* One search call of a caller that idled gap seconds since the last one.
SearchCall ==
    /\ Len(searchLog) < MaxSearches
    /\ \E gap \in 0..MaxGap, r \in SearchResults :
        LET start == clock + gap
        IN  /\ lastSearch' = r
            /\ searchLog' = Append(searchLog,
                    [first |-> start + r.calls[1].at,
                     last  |-> start + r.calls[Len(r.calls)].at])
            /\ clock' = start + r.elapsed
    /\ UNCHANGED <<cache, apiLast, run, fcall>>

(***************************************************************************)
(* The web pipeline: web_process_query_with_progress.generate_progress     *)
(* (mode "sse", /search_progress) and search (mode "post", /search).       *)
(***************************************************************************)
Runs  == {1, 2}
Modes == {"sse", "post"}

Event(stage, progress) == [stage |-> stage, progress |-> progress]

NoOutcome == [kind |-> "none", is_cached |-> FALSE, summary |-> "",
              similarity |-> 0, pages_scraped |-> 0, message |-> ""]

NoAgain == [valid |-> FALSE, summary |-> ""]

NoLast == [valid |-> FALSE, query |-> "", summary |-> ""]

IdleRun == [pc |-> "idle", mode |-> "sse", query |-> "", events |-> <<>>,
            nurls |-> 0, i |-> 0, contents |-> 0, summary |-> "",
            outcome |-> NoOutcome,
            \* the store raised in the lookup of step 2
            lookupFailed |-> FALSE,
            \* what the run has called so far
            nLookup |-> 0, nSearch |-> 0, fetched |-> <<>>,
            nSummarize |-> 0, nAdd |-> 0,
            \* the fetches that returned a non-empty text; whether a fetch
            \* failed (status, timeout, exception of the transport)
            yielded |-> 0, fetchFailed |-> FALSE,
            \* the summarizer called the model and every call failed
            modelFailed |-> FALSE,
            \* the provider outcomes of a search that found nothing
            emptyProvs |-> <<>>,
            \* the collection when the run began
            cache0 |-> {},
            \* the run before this one, when it was for the same query, ended
            \* complete with is_cached False, and no /cache-* call came since
            again |-> NoAgain,
            \* between two runs: the query and summary of the run that just
            \* ended complete with is_cached False
            last |-> NoLast]

\* "yield f'data: ...'": only generate_progress emits events.
Emit(rn, stage, progress) ==
    IF rn.mode = "sse" THEN Append(rn.events, Event(stage, progress))
    ELSE rn.events

\* A terminal error that emits no event.
FailNoEvent(rn, message) ==
    [rn EXCEPT !.pc = "done",
               !.outcome = [NoOutcome EXCEPT !.kind = "error",
                                             !.message = message]]

\* A terminal error: the error event of generate_progress (progress 0), the
\* jsonify({'error': ...}) of search.
Fail(rn, message) ==
    [rn EXCEPT !.pc = "done",
               !.events = Emit(rn, "error", 0),
               !.outcome = [NoOutcome EXCEPT !.kind = "error",
                                             !.message = message]]

\* An exception of a collaborator: "except Exception as e" of both handlers;
\* classify_query of search is called before its try.
Raise(rn, inTry) ==
    IF rn.mode = "sse" \/ inTry THEN Fail(rn, "exception")
    ELSE [rn EXCEPT !.pc = "done", !.outcome.kind = "raised"]

\* The start of a run: the first event of generate_progress.
StartStep(old, q, mode, c) ==
    LET rn == [IdleRun EXCEPT
                !.pc = "validating", !.mode = mode, !.query = q, !.cache0 = c,
                !.again =
                    IF old.last.valid /\ old.last.query = q
                    THEN [valid |-> TRUE, summary |-> old.last.summary]
                    ELSE NoAgain]
    IN  [rn EXCEPT !.events = Emit(rn, "validating", 5)]

\* Step 1 without the return after the error event of an invalid query.
ClassifyStepNoReturn(rn, verdict) ==
    CASE verdict = "raise"   -> Raise(rn, FALSE)
      [] verdict = "invalid" -> [Fail(rn, "invalid") EXCEPT !.pc = "cache"]
      [] OTHER -> [rn EXCEPT !.pc = "cache", !.events = Emit(rn, "cache", 10)]

\* Step 1: classify_query(query) == "invalid".
ClassifyStep(rn, verdict) ==
    CASE verdict = "raise"   -> Raise(rn, FALSE)
      [] verdict = "invalid" -> Fail(rn, "invalid")
      [] OTHER -> [rn EXCEPT !.pc = "cache", !.events = Emit(rn, "cache", 10)]

\* Python's truth of "cached": None and the empty string are false.
Truthy(res) == res.found /\ res.summary # ""

\* Step 2 without the return of the hit branch.
LookupStepNoReturn(rn, res) ==
    IF res.raised THEN Raise([rn EXCEPT !.nLookup = @ + 1], TRUE)
    ELSE IF Truthy(res)
    THEN [rn EXCEPT !.pc = "searching", !.nLookup = @ + 1,
                    !.events = Emit(rn, "complete", 100),
                    !.outcome = [NoOutcome EXCEPT
                                    !.kind = "complete", !.is_cached = TRUE,
                                    !.summary = res.summary,
                                    !.similarity = res.similarity]]
    ELSE [rn EXCEPT !.pc = "searching", !.nLookup = @ + 1,
                    !.events = Emit(rn, "searching", 15)]

\* Step 2: cached, similarity = find_similar_query(query); "if cached:".
\* The call is inside the handler's try.
LookupStep(rn, res) ==
    IF res.raised THEN Raise([rn EXCEPT !.nLookup = @ + 1], TRUE)
    ELSE IF Truthy(res)
    THEN [rn EXCEPT !.pc = "done", !.nLookup = @ + 1,
                    !.events = Emit(rn, "complete", 100),
                    !.outcome = [NoOutcome EXCEPT
                                    !.kind = "complete", !.is_cached = TRUE,
                                    !.summary = res.summary,
                                    !.similarity = res.similarity]]
    ELSE [rn EXCEPT !.pc = "searching", !.nLookup = @ + 1,
                    !.events = Emit(rn, "searching", 15)]

ProviderKinds(sr) ==
    [k \in 1..Len(sr.calls) |->
        IF sr.calls[k].out.kind = "ok"
        THEN (IF sr.calls[k].out.n = 0 THEN "empty" ELSE "urls")
        ELSE sr.calls[k].out.kind]

\* Step 3 without "if not urls".
SearchStepNoCheck(rn, sr) ==
    LET r1 == [rn EXCEPT !.nSearch = @ + 1,
                         !.emptyProvs = IF sr.urls = <<>>
                                        THEN ProviderKinds(sr) ELSE <<>>]
    IN  [r1 EXCEPT !.pc = "found", !.nurls = Len(sr.urls),
                   !.events = Emit(r1, "found", 25)]

\* Step 3: urls = search_duckduckgo(query); "if not urls:".
SearchStep(rn, sr) ==
    LET r1 == [rn EXCEPT !.nSearch = @ + 1,
                         !.emptyProvs = IF sr.urls = <<>>
                                        THEN ProviderKinds(sr) ELSE <<>>]
    IN  IF sr.urls = <<>> THEN Fail(r1, "no_results")
        ELSE [r1 EXCEPT !.pc = "found", !.nurls = Len(sr.urls),
                        !.events = Emit(r1, "found", 25)]

Min(a, b) == IF a < b THEN a ELSE b

\* total_pages = min(len(urls), 5); urls[:5]
TotalPages(rn) == Min(rn.nurls, 5)

\* The code after the loop without "if not contents".
AfterLoopNoCheck(rn) ==
    [rn EXCEPT !.pc = "summarizing",
               !.events = Emit(rn, "summarizing", 80)]

\* After the loop of step 4: "if not contents:", else step 5's first event.
AfterLoop(rn) ==
    IF rn.contents = 0 THEN Fail(rn, "no_content")
    ELSE [rn EXCEPT !.pc = "summarizing",
                    !.events = Emit(rn, "summarizing", 80)]

\* Step 4, entering the loop "for i, url in enumerate(urls[:5], 1)".
FoundStep(rn) ==
    IF TotalPages(rn) = 0 THEN AfterLoop(rn)
    ELSE [rn EXCEPT !.pc = "scraping", !.i = 1,
                    !.events = Emit(rn, "scraping", 25 + 1 * 10)]

\* What one page fetch may meet.
PageOutcomes == {"content", "short", "empty", "status", "timeout", "exc"}

\* scrape_page: the extracted text when it is longer than 100 characters, ""
\* otherwise and on every exception.  TRUE: the page yields content.
ScrapePage(page) == page = "content"

\* The fetch failed: raise_for_status raised on a non-success status, the
\* request timed out, or the transport raised.
FetchFailed(page) == page \in {"status", "timeout", "exc"}

\* One turn of the loop that fetches the same URL again when the page
\* yielded nothing.
ScrapeStepRetry(rn, page) ==
    LET r1 == [rn EXCEPT !.fetched = Append(@, rn.i),
                         !.yielded = IF ScrapePage(page) THEN @ + 1 ELSE @,
                         !.fetchFailed = @ \/ FetchFailed(page),
                         !.contents = IF ScrapePage(page) THEN @ + 1 ELSE @]
    IN  IF ~ScrapePage(page) THEN r1
        ELSE IF rn.i < TotalPages(rn)
        THEN [r1 EXCEPT !.i = @ + 1,
                        !.events = Emit(r1, "scraping", 25 + (rn.i + 1) * 10)]
        ELSE AfterLoop(r1)

\* One turn of the loop with a progress step of 20 per page.
ScrapeStepSteep(rn, page) ==
    LET r1 == [rn EXCEPT !.fetched = Append(@, rn.i),
                         !.yielded = IF ScrapePage(page) THEN @ + 1 ELSE @,
                         !.fetchFailed = @ \/ FetchFailed(page),
                         !.contents = IF ScrapePage(page) THEN @ + 1 ELSE @]
    IN  IF rn.i < TotalPages(rn)
        THEN [r1 EXCEPT !.i = @ + 1,
                        !.events = Emit(r1, "scraping", 25 + (rn.i + 1) * 20)]
        ELSE AfterLoop(r1)

\* One turn of the loop: scrape_page(url), contents.append, time.sleep(1),
\* then the next turn's event or the code after the loop.
ScrapeStep(rn, page) ==
    LET r1 == [rn EXCEPT !.fetched = Append(@, rn.i),
                         !.yielded = IF ScrapePage(page) THEN @ + 1 ELSE @,
                         !.fetchFailed = @ \/ FetchFailed(page),
                         !.contents = IF ScrapePage(page) THEN @ + 1 ELSE @]
    IN  IF rn.i < TotalPages(rn)
        THEN [r1 EXCEPT !.i = @ + 1,
                        !.events = Emit(r1, "scraping", 25 + (rn.i + 1) * 10)]
        ELSE AfterLoop(r1)

(***************************************************************************)
(* The summarizer, as the pipeline calls it.  A text is "" or stands for   *)
(* any non-empty string.                                                   *)
(***************************************************************************)
Texts == {"", "s1"}

\* create_coherent_summary of three sentences or more is never empty.
ExtractiveSummaries == {"s1"}

Marker == "Unable to generate summary from the provided content."

\* summarize_with_ai: the model's summary_text; when the model call raises,
\* the input text cut to 500 characters (cut).
SummarizeWithAi(cut, modelFails, summary_text) ==
    IF modelFails THEN cut ELSE summary_text

\* summarize_text calls the model when it has fewer than three sentences
\* (few) or an extractive summary of fewer than 30 words (short).
ModelCalled(few, short) == few \/ short

\* summarize_text on the contents of the pipeline (more than 100
\* characters): what it returns when no helper raises.
SummarizeText(few, short, modelFails, cut, extracted, summary_text) ==
    IF few THEN SummarizeWithAi(cut, modelFails, summary_text)
    ELSE LET enhanced == SummarizeWithAi(cut, modelFails, summary_text)
             \* "if len(enhanced) > len(summary)": of two non-empty texts
             \* either stands for the longer one
             summary  == IF short /\ extracted = "" /\ enhanced # ""
                         THEN enhanced ELSE extracted
         IN  IF summary # "" THEN summary ELSE Marker

\* What one call of summarize_text may do: raise in a helper, or return a
\* summary with or without a failed model call.
SummarizerResults ==
    {[raises |-> raises,
      modelFailed |-> ~raises /\ modelFails /\ ModelCalled(few, short),
      summary |-> IF raises THEN ""
                  ELSE SummarizeText(few, short, modelFails, cut, extracted,
                                     summary_text)] :
        raises \in BOOLEAN, few \in BOOLEAN, short \in BOOLEAN,
        modelFails \in BOOLEAN, cut \in Texts, summary_text \in Texts,
        extracted \in ExtractiveSummaries}

\* Step 5: summary = summarize_text(combined, query), then step 6's event.
SummarizeStep(rn, raises, modelFailed, summary) ==
    LET r1 == [rn EXCEPT !.nSummarize = @ + 1]
    IN  IF raises THEN Raise(r1, TRUE)
        ELSE [r1 EXCEPT !.pc = "caching", !.summary = summary,
                        !.modelFailed = modelFailed,
                        !.events = Emit(r1, "caching", 95)]

\* Step 6: after add_to_cache(query, summary) returned, the complete outcome.
CachingStep(rn) ==
    [rn EXCEPT !.pc = "done", !.nAdd = @ + 1,
               !.events = Emit(rn, "complete", 100),
               !.outcome = [NoOutcome EXCEPT
                                !.kind = "complete", !.is_cached = FALSE,
                                !.summary = rn.summary,
                                !.pages_scraped = rn.contents]]

\* The response is sent (the generator is exhausted): the run is over.
ReturnStep(rn) ==
    [IdleRun EXCEPT !.last =
        IF rn.outcome.kind = "complete" /\ ~rn.outcome.is_cached
        THEN [valid |-> TRUE, query |-> rn.query,
              summary |-> rn.outcome.summary]
        ELSE NoLast]

Idle(r) == run[r].pc = "idle"

Return(r) ==
    /\ run[r].pc = "done"
    /\ run' = [run EXCEPT ![r] = ReturnStep(run[r])]
    /\ UNCHANGED <<cache, apiLast, clock, searchLog, lastSearch, fcall>>

\* The response is sent and nothing of the run is remembered.
Finish(r) ==
    /\ run[r].pc = "done"
    /\ run' = [run EXCEPT ![r] = IdleRun]
    /\ UNCHANGED <<cache, apiLast, clock, searchLog, lastSearch, fcall>>

Start(r, q, mode) ==
    /\ Idle(r)
    /\ run' = [run EXCEPT ![r] = StartStep(run[r], q, mode, cache)]
    /\ UNCHANGED <<cache, apiLast, clock, searchLog, lastSearch, fcall>>

Classify(r) ==
    /\ run[r].pc = "validating"
    /\ \E verdict \in {"valid", "invalid", "raise"} :
        run' = [run EXCEPT ![r] = ClassifyStep(run[r], verdict)]
    /\ UNCHANGED <<cache, apiLast, clock, searchLog, lastSearch, fcall>>

Lookup(r) ==
    /\ run[r].pc = "cache"
    /\ \E storeFails \in BOOLEAN :
        \E res \in Lookups(cache, run[r].query, DefaultThreshold, storeFails) :
            run' = [run EXCEPT ![r] =
                [LookupStep(run[r], res) EXCEPT !.lookupFailed = storeFails]]
    /\ UNCHANGED <<cache, apiLast, clock, searchLog, lastSearch, fcall>>

\* Step 3, the search answering with one of the given results.
SearchFrom(r, results) ==
    /\ run[r].pc = "searching"
    /\ \E sr \in results :
        run' = [run EXCEPT ![r] = SearchStep(run[r], sr)]
    /\ UNCHANGED <<cache, apiLast, clock, searchLog, lastSearch, fcall>>

Search(r) == SearchFrom(r, SearchResults)

Found(r) ==
    /\ run[r].pc = "found"
    /\ run' = [run EXCEPT ![r] = FoundStep(run[r])]
    /\ UNCHANGED <<cache, apiLast, clock, searchLog, lastSearch, fcall>>

Scrape(r) ==
    /\ run[r].pc = "scraping"
    /\ \E page \in PageOutcomes :
        run' = [run EXCEPT ![r] = ScrapeStep(run[r], page)]
    /\ UNCHANGED <<cache, apiLast, clock, searchLog, lastSearch, fcall>>

Summarize(r) ==
    /\ run[r].pc = "summarizing"
    /\ \E st \in SummarizerResults :
        /\ st.summary \in SummarizerOutputs
        /\ run' = [run EXCEPT ![r] =
                SummarizeStep(run[r], st.raises, st.modelFailed, st.summary)]
    /\ UNCHANGED <<cache, apiLast, clock, searchLog, lastSearch, fcall>>

\* On a collection of MaxEntries entries only the insert the store refuses
\* is followed.
Caching(r) ==
    /\ run[r].pc = "caching"
    /\ \E query_id \in Ids, storeFails \in BOOLEAN :
        /\ storeFails \/ query_id \in FreeIds(cache)
        /\ cache' = AddToCache(cache, run[r].query, run[r].summary,
                               query_id, storeFails)
    /\ run' = [run EXCEPT ![r] = CachingStep(run[r])]
    /\ UNCHANGED <<apiLast, clock, searchLog, lastSearch, fcall>>

\* /cache-delete-item and /cache-clear, between two runs.
AdminDelete(query_id) ==
    /\ \A o \in Runs : Idle(o)
    /\ \E storeFails \in BOOLEAN :
        cache' = DeleteCacheItem(cache, query_id, storeFails)
    /\ run' = [o \in Runs |-> [run[o] EXCEPT !.last = NoLast]]
    /\ UNCHANGED <<apiLast, clock, searchLog, lastSearch, fcall>>

AdminClear ==
    /\ \A o \in Runs : Idle(o)
    /\ \E storeFails \in BOOLEAN : cache' = ClearCache(cache, storeFails)
    /\ run' = [o \in Runs |-> [run[o] EXCEPT !.last = NoLast]]
    /\ UNCHANGED <<apiLast, clock, searchLog, lastSearch, fcall>>

(***************************************************************************)
(* Single functions, called on their own.                                  *)
(***************************************************************************)
\* summarize_with_ai keeps at most this many words of its input.
ChunkWords == 500

\* Most words of a text given to summarize_with_ai here.
MaxWords == 1500

\* summarize_with_ai on a text of nwords words (numbered 1..nwords): the
\* model calls it makes, each with the first and last word it passes.  A
\* text of more than 500 words is replaced by its first 500 words, and the
\* model is called once on what is left.
ModelInvocations(nwords) ==
    LET kept == IF nwords > ChunkWords THEN ChunkWords ELSE nwords
    IN  <<[first |-> 1, last |-> kept]>>

SummarizeWithAiInputs ==
    {[fn |-> "summarize_with_ai", done |-> FALSE, nwords |-> n,
      invocations |-> <<>>] : n \in 0..MaxWords}

CallSummarizeWithAi ==
    /\ fcall.fn = "summarize_with_ai"
    /\ ~fcall.done
    /\ fcall' = [fcall EXCEPT !.done = TRUE,
                              !.invocations = ModelInvocations(fcall.nwords)]
    /\ UNCHANGED <<cache, apiLast, clock, searchLog, lastSearch, run>>

\* summarize_text trims a summary of more than this many characters ...
MaxSummaryChars == 2000

\* ... to this many sentences.
MaxTrimSentences == 8

\* Most sentences of an untrimmed summary here, and their lengths.
MaxSummarySentences == 9

SentenceLengths == {60, 250, 400}

RECURSIVE SumSeq(_)
SumSeq(s) == IF s = <<>> THEN 0 ELSE Head(s) + SumSeq(Tail(s))

\* len(' '.join(sentences)): the sentences and one space between two.
JoinedLength(sentences) ==
    IF sentences = <<>> THEN 0 ELSE SumSeq(sentences) + Len(sentences) - 1

\* The end of summarize_text on a summary given by the lengths of the
\* sentences re.split finds in it: the sentences it returns.
FinalTrim(sentences) ==
    IF JoinedLength(sentences) > MaxSummaryChars
    THEN SubSeq(sentences, 1, Min(MaxTrimSentences, Len(sentences)))
    ELSE sentences

FinalTrimInputs ==
    {[fn |-> "final_trim", done |-> FALSE, sentences |-> s, result |-> <<>>] :
        s \in UNION {[1..n -> SentenceLengths] : n \in 0..MaxSummarySentences}}

CallFinalTrim ==
    /\ fcall.fn = "final_trim"
    /\ ~fcall.done
    /\ fcall' = [fcall EXCEPT !.done = TRUE,
                              !.result = FinalTrim(fcall.sentences)]
    /\ UNCHANGED <<cache, apiLast, clock, searchLog, lastSearch, run>>

\* Most entries of the pickle cache here.
MaxPickleEntries == 2

\* util.cos_sim of two embeddings, in quarters.
CosSim(a, b) == One - CosineDistance(a, b)

\* cache.py's find_similar_query on the list entries (oldest first): the
\* first item whose similarity is at or above the threshold.
RECURSIVE PickleFindSimilarQuery(_, _, _)
PickleFindSimilarQuery(entries, new_query, threshold) ==
    IF entries = <<>> THEN NoneResult
    ELSE LET item == Head(entries)
             sim  == CosSim(Embed(new_query), Embed(item.query))
         IN  IF sim >= threshold
             THEN [found |-> TRUE, summary |-> item.summary,
                   similarity |-> sim, raised |-> FALSE]
             ELSE PickleFindSimilarQuery(Tail(entries), new_query, threshold)

PickleEntries == [query : Queries, summary : {"s1", "s2"}]

PickleFindInputs ==
    {[fn |-> "cache.find_similar_query", done |-> FALSE, entries |-> s,
      new_query |-> q, threshold |-> t, result |-> NoneResult] :
        s \in UNION {[1..n -> PickleEntries] : n \in 0..MaxPickleEntries},
        q \in Queries, t \in Thresholds}

CallPickleFind ==
    /\ fcall.fn = "cache.find_similar_query"
    /\ ~fcall.done
    /\ fcall' = [fcall EXCEPT
                    !.done = TRUE,
                    !.result = PickleFindSimilarQuery(
                                   fcall.entries, fcall.new_query,
                                   fcall.threshold)]
    /\ UNCHANGED <<cache, apiLast, clock, searchLog, lastSearch, run>>

\* The domain lists of web_search.py, each domain by its labels.
QUALITY_DOMAINS ==
    <<<<"wikipedia", "org">>, <<"britannica", "com">>,
      <<"nationalgeographic", "com">>, <<"nature", "com">>,
      <<"sciencedirect", "com">>, <<"smithsonianmag", "com">>,
      <<"scientificamerican", "com">>,
      <<"bbc", "com">>, <<"reuters", "com">>, <<"ap", "org">>,
      <<"cnn", "com">>, <<"npr", "org">>,
      <<"tripadvisor", "com">>, <<"lonelyplanet", "com">>,
      <<"booking", "com">>, <<"expedia", "com">>,
      <<"airbnb", "com">>, <<"hotels", "com">>, <<"agoda", "com">>,
      <<"makemytrip", "com">>,
      <<"edu">>, <<"gov">>, <<"org">>, <<"com">> >>

BAD_DOMAINS ==
    <<<<"pinterest", "com">>, <<"yahoo", "answers">>,
      <<"wiki", "answers", "com">>,
      <<"chacha", "com">>, <<"blurtit", "com">>, <<"weegy", "com">> >>

\* A URL that urlparse rejects (an unclosed "[" in the host).
InvalidUrl == <<"[">>

\* The URLs given to the filter, each by the labels of its host.  On these
\* hosts a domain is a substring of the host exactly when its labels are
\* consecutive labels of the host.
FilterUrls ==
    {<<"en", "wikipedia", "org">>, <<"www", "pinterest", "com">>,
     <<"example", "net">>, <<"Yahoo", "Answers", "net">>, InvalidUrl}

\* Most URLs of a list given to the filter here.
MaxFilterUrls == 3

\* str.lower() on the labels used here.
LowerLabel(l) ==
    CASE l = "Yahoo"   -> "yahoo"
      [] l = "Answers" -> "answers"
      [] OTHER         -> l

\* urllib.parse.urlparse(url).netloc.lower()
Netloc(url) == [k \in 1..Len(url) |-> LowerLabel(url[k])]

\* get_domain_score: the quality domains are tried first, then the bad
\* ones; 25 when urlparse raises.
GetDomainScore(url) ==
    IF url = InvalidUrl THEN 25
    ELSE LET domain == Netloc(url)
         IN  IF \E k \in 1..Len(QUALITY_DOMAINS) :
                    Contains(QUALITY_DOMAINS[k], domain)
             THEN 100
             ELSE IF \E k \in 1..Len(BAD_DOMAINS) :
                        Contains(BAD_DOMAINS[k], domain)
             THEN 0
             ELSE 50

\* list.sort(key=score, reverse=True): stable, so a URL goes behind every
\* URL of the same or a greater score that came before it.
RECURSIVE InsertByScore(_, _)
InsertByScore(url, sorted) ==
    IF sorted = <<>> THEN <<url>>
    ELSE IF GetDomainScore(Head(sorted)) >= GetDomainScore(url)
    THEN <<Head(sorted)>> \o InsertByScore(url, Tail(sorted))
    ELSE <<url>> \o sorted

RECURSIVE SortByScore(_)
SortByScore(urls) ==
    IF urls = <<>> THEN <<>>
    ELSE InsertByScore(urls[Len(urls)],
                       SortByScore(SubSeq(urls, 1, Len(urls) - 1)))

IsKept(url) == GetDomainScore(url) > 0

\* filter_quality_urls: the URLs of score above 0, sorted by score.
FilterQualityUrls(urls) ==
    LET filtered_urls == SelectSeq(urls, IsKept)
    IN  SortByScore(filtered_urls)

FilterInputs ==
    {[fn |-> "filter_quality_urls", done |-> FALSE, urls |-> s,
      result |-> <<>>] :
        s \in UNION {[1..n -> FilterUrls] : n \in 0..MaxFilterUrls}}

CallFilterQualityUrls ==
    /\ fcall.fn = "filter_quality_urls"
    /\ ~fcall.done
    /\ fcall' = [fcall EXCEPT !.done = TRUE,
                              !.result = FilterQualityUrls(fcall.urls)]
    /\ UNCHANGED <<cache, apiLast, clock, searchLog, lastSearch, run>>

(***************************************************************************)
(* The two handlers side by side: generate_progress (sse) and search       *)
(* (post) are given the same query, each its own copy of the same          *)
(* collection, and the same answer of every collaborator they call.        *)
(***************************************************************************)
BothCaches ==
    {c \in SUBSET [id : {1}, query : Queries, summary : SummarizerOutputs] :
        Cardinality(c) <= 1}

BothInputs ==
    {[fn |-> "both", done |-> FALSE,
      sse  |-> StartStep(IdleRun, q, "sse", c),
      post |-> StartStep(IdleRun, q, "post", c),
      cacheSse |-> c, cachePost |-> c] :
        q \in Queries, c \in BothCaches}

\* Some handler is at pc.
BothAt(pc) ==
    /\ fcall.fn = "both"
    /\ fcall.sse.pc = pc \/ fcall.post.pc = pc

BothClassify ==
    /\ BothAt("validating")
    /\ \E verdict \in {"valid", "invalid", "raise"} :
        fcall' = [fcall EXCEPT
            !.sse  = IF @.pc = "validating" THEN ClassifyStep(@, verdict)
                     ELSE @,
            !.post = IF @.pc = "validating" THEN ClassifyStep(@, verdict)
                     ELSE @]
    /\ UNCHANGED <<cache, apiLast, clock, searchLog, lastSearch, run>>

BothLookup ==
    /\ BothAt("cache")
    /\ \E storeFails \in BOOLEAN :
        \E res \in Lookups(fcall.cacheSse, fcall.sse.query, DefaultThreshold,
                           storeFails) :
            fcall' = [fcall EXCEPT
                !.sse  = IF @.pc = "cache"
                         THEN [LookupStep(@, res) EXCEPT
                                    !.lookupFailed = storeFails]
                         ELSE @,
                !.post = IF @.pc = "cache"
                         THEN [LookupStep(@, res) EXCEPT
                                    !.lookupFailed = storeFails]
                         ELSE @]
    /\ UNCHANGED <<cache, apiLast, clock, searchLog, lastSearch, run>>

BothSearch ==
    /\ BothAt("searching")
    /\ \E sr \in ConcSearchResults :
        fcall' = [fcall EXCEPT
            !.sse  = IF @.pc = "searching" THEN SearchStep(@, sr) ELSE @,
            !.post = IF @.pc = "searching" THEN SearchStep(@, sr) ELSE @]
    /\ UNCHANGED <<cache, apiLast, clock, searchLog, lastSearch, run>>

BothFound ==
    /\ BothAt("found")
    /\ fcall' = [fcall EXCEPT
            !.sse  = IF @.pc = "found" THEN FoundStep(@) ELSE @,
            !.post = IF @.pc = "found" THEN FoundStep(@) ELSE @]
    /\ UNCHANGED <<cache, apiLast, clock, searchLog, lastSearch, run>>

BothScrape ==
    /\ BothAt("scraping")
    /\ \E page \in PageOutcomes :
        fcall' = [fcall EXCEPT
            !.sse  = IF @.pc = "scraping" THEN ScrapeStep(@, page) ELSE @,
            !.post = IF @.pc = "scraping" THEN ScrapeStep(@, page) ELSE @]
    /\ UNCHANGED <<cache, apiLast, clock, searchLog, lastSearch, run>>

BothSummarize ==
    /\ BothAt("summarizing")
    /\ \E st \in SummarizerResults :
        /\ st.summary \in SummarizerOutputs
        /\ fcall' = [fcall EXCEPT
            !.sse  = IF @.pc = "summarizing"
                     THEN SummarizeStep(@, st.raises, st.modelFailed,
                                        st.summary)
                     ELSE @,
            !.post = IF @.pc = "summarizing"
                     THEN SummarizeStep(@, st.raises, st.modelFailed,
                                        st.summary)
                     ELSE @]
    /\ UNCHANGED <<cache, apiLast, clock, searchLog, lastSearch, run>>

BothCaching ==
    /\ BothAt("caching")
    /\ \E query_id \in Ids, storeFails \in BOOLEAN :
        /\ storeFails \/ query_id \in
                FreeIds(fcall.cacheSse) \cap FreeIds(fcall.cachePost)
        /\ fcall' = [fcall EXCEPT
            !.cacheSse  = IF fcall.sse.pc = "caching"
                          THEN AddToCache(@, fcall.sse.query,
                                          fcall.sse.summary, query_id,
                                          storeFails)
                          ELSE @,
            !.cachePost = IF fcall.post.pc = "caching"
                          THEN AddToCache(@, fcall.post.query,
                                          fcall.post.summary, query_id,
                                          storeFails)
                          ELSE @,
            !.sse  = IF @.pc = "caching" THEN CachingStep(@) ELSE @,
            !.post = IF @.pc = "caching" THEN CachingStep(@) ELSE @]
    /\ UNCHANGED <<cache, apiLast, clock, searchLog, lastSearch, run>>

\* No function is being called on its own.
NoFunctionCall == [fn |-> "none", done |-> FALSE]

(***************************************************************************)
(* Specifications.                                                         *)
(***************************************************************************)
Init ==
    /\ cache = {}
    /\ apiLast = NoCall
    /\ clock = 0
    /\ searchLog = <<>>
    /\ lastSearch = NoSearch
    /\ run = [r \in Runs |-> IdleRun]
    /\ fcall = NoFunctionCall

\* A step of the handler of run r.
RunStep(r) ==
    \/ Classify(r)
    \/ Lookup(r)
    \/ Search(r)
    \/ Found(r)
    \/ Scrape(r)
    \/ Summarize(r)
    \/ Caching(r)

\* One caller: the runs of the web pipeline one after the other, with the
\* administrative routes between them.
Next ==
    \/ \E q \in Queries, mode \in Modes : Start(1, q, mode)
    \/ Classify(1)
    \/ Lookup(1)
    \/ Search(1)
    \/ Found(1)
    \/ Scrape(1)
    \/ Summarize(1)
    \/ Caching(1)
    \/ Finish(1)
    \/ \E query_id \in Ids : AdminDelete(query_id)
    \/ AdminClear

Spec == Init /\ [][Next]_vars

\* The same caller, each run remembering how the run before it ended
\* (again, last).
NextRepeat ==
    \/ \E q \in Queries, mode \in Modes : Start(1, q, mode)
    \/ RunStep(1)
    \/ Return(1)
    \/ \E query_id \in Ids : AdminDelete(query_id)
    \/ AdminClear

SpecRepeat == Init /\ [][NextRepeat]_vars

\* One caller asking for one query again and again, with a handler that is
\* not killed: every call the handler makes returns or raises (the requests
\* carry timeouts), so the handler goes on as long as it has a next
\* statement.
NextFair ==
    \/ \E q \in SameQuery, mode \in Modes : Start(1, q, mode)
    \/ RunStep(1)
    \/ Finish(1)

SpecFair == Init /\ [][NextFair]_vars /\ WF_vars(RunStep(1))

\* Two callers at once: each request is served by its own handler, and the
\* handlers share the collection.  Both ask for the same query.

NextConc ==
    \E r \in Runs :
        \/ \E q \in SameQuery, mode \in Modes : Start(r, q, mode)
        \/ Classify(r)
        \/ Lookup(r)
        \/ SearchFrom(r, ConcSearchResults)
        \/ Found(r)
        \/ Scrape(r)
        \/ Summarize(r)
        \/ Caching(r)

SpecConc == Init /\ [][NextConc]_vars

\* The cache called directly.
NextCache ==
    \/ \E q \in Queries, s \in Summaries : ApiAdd(q, s)
    \/ \E q \in Queries, threshold \in Thresholds : ApiFind(q, threshold)
    \/ \E query_id \in Ids : ApiDeleteItem(query_id)
    \/ ApiClear

SpecCache == Init /\ [][NextCache]_vars

\* The administrative delete by query text, on the collection the inserts
\* build.
NextAdmin ==
    \/ \E q \in Queries, s \in Summaries : ApiAdd(q, s)
    \/ \E query_text \in SearchTerms : ApiDeleteByQuery(query_text)

SpecAdmin == Init /\ [][NextAdmin]_vars

\* Consecutive calls of the search.
NextSearch == SearchCall

SpecSearch == Init /\ [][NextSearch]_vars

(***************************************************************************)
(* Properties of the search (checked under SpecSearch).                    *)
(***************************************************************************)
YieldsNothing(out) == out.kind # "ok" \/ out.n = 0

\* C1: providers are invoked in priority order; when the primary provider
\* returns an empty list the next provider is invoked before the search
\* returns, and when the primary returns at least one URL no fallback
\* provider is invoked in that call.
C1_FallbackOrder ==
    LET calls == lastSearch.calls
    IN  /\ Len(calls) <= Len(search_methods)
        /\ \A k \in 1..Len(calls) :
            /\ calls[k].provider = search_methods[k]
            /\ k > 1 => calls[k - 1].at <= calls[k].at
        /\ (calls # <<>> /\ YieldsNothing(calls[1].out)) => Len(calls) >= 2
        /\ (calls # <<>> /\ ~YieldsNothing(calls[1].out)) =>
                /\ Len(calls) = 1
                /\ lastSearch.urls # <<>>

\* C1's case: the primary returned an empty list with status 200, the
\* fallback was invoked and returned URLs.
C1_Witness ==
    /\ Len(lastSearch.calls) = 2
    /\ lastSearch.calls[1].out = [kind |-> "ok", n |-> 0]
    /\ lastSearch.calls[2].provider = "Google Scrape"
    /\ lastSearch.urls # <<>>

\* C2: after a transient failure of a provider request (a rate-limit status
\* or a transport exception) the same provider is requested again, up to
\* max_retries attempts, before the search advances to the next provider.
C2_RetrySameProvider ==
    LET calls == lastSearch.calls
        Attempts(k) ==
            Cardinality({j \in 1..k : calls[j].provider = calls[k].provider})
    IN  \A k \in 1..Len(calls) :
            (Transient(calls[k].out) /\ Attempts(k) < max_retries) =>
                /\ k < Len(calls)
                /\ calls[k + 1].provider = calls[k].provider

\* C3: for any N consecutive search calls, the time between the first
\* provider request of the first and the last provider request of the last
\* is at least (N-1) * min_interval.
C3_RateLimit ==
    \A a \in 1..Len(searchLog) : \A b \in a..Len(searchLog) :
        searchLog[b].last - searchLog[a].first >= (b - a) * min_interval

\* C4: the search never raises; when every provider yields nothing it
\* returns the empty list, and it returns the empty list only after every
\* provider has been invoked.
C4_SearchNeverRaises ==
    LET calls == lastSearch.calls
    IN  /\ ~lastSearch.raised
        /\ (calls # <<>> /\ lastSearch.urls = <<>>) =>
                /\ Len(calls) = Len(search_methods)
                /\ \A k \in 1..Len(calls) : YieldsNothing(calls[k].out)
        /\ (/\ Len(calls) = Len(search_methods)
            /\ \A k \in 1..Len(calls) : YieldsNothing(calls[k].out))
                => lastSearch.urls = <<>>

\* C4's case: one provider raised, the other answered another status, and
\* the call returned the empty list.
C4_Witness ==
    /\ Len(lastSearch.calls) = 2
    /\ lastSearch.calls[1].out.kind = "exc"
    /\ lastSearch.calls[2].out.kind = "status"
    /\ lastSearch.urls = <<>>
    /\ ~lastSearch.raised

(***************************************************************************)
(* Properties of the cache called directly (checked under SpecCache).      *)
(***************************************************************************)
Similarity(q, e) == One - CosineDistance(Embed(q), Embed(e.query))

\* The similarity of the nearest neighbour of q in a non-empty collection.
BestSimilarity(c, q) ==
    CHOOSE s \in {Similarity(q, e) : e \in c} :
        \A e \in c : Similarity(q, e) <= s

\* C5: a lookup the store serves returns the nearest neighbour's summary and
\* similarity when that similarity is equal to or above the threshold, and
\* (None, None) when it is strictly below, for every threshold.
C5_InclusiveThreshold ==
    (apiLast.op = "find" /\ apiLast.ok /\ cache # {}) =>
        LET best == BestSimilarity(cache, apiLast.query)
        IN  IF best >= apiLast.threshold
            THEN /\ apiLast.res.found
                 /\ apiLast.res.similarity = best
                 /\ \E e \in cache :
                        /\ Similarity(apiLast.query, e) = best
                        /\ e.summary = apiLast.res.summary
            ELSE apiLast.res = NoneResult

\* C5's case: the nearest neighbour is exactly at the threshold, below 1.0,
\* and is returned.
C5_Witness ==
    /\ apiLast.op = "find" /\ apiLast.ok
    /\ cache # {}
    /\ BestSimilarity(cache, apiLast.query) = apiLast.threshold
    /\ apiLast.threshold = DefaultThreshold
    /\ apiLast.res.found
    /\ apiLast.res.similarity = apiLast.threshold

\* C6 as claimed: a lookup of Q that the store serves right after an
\* accepted insert (Q, S) returns S, at or above the threshold, whatever the
\* collection held before.
C6_InsertThenLookup ==
    (apiLast.op = "find" /\ apiLast.ok /\ apiLast.afterAdd.valid) =>
        /\ apiLast.res.found
        /\ apiLast.res.summary = apiLast.afterAdd.summary
        /\ apiLast.res.similarity >= apiLast.threshold

\* C6 amended: such a lookup is a hit with similarity 1.0, and returns the
\* summary of an entry stored under an embedding equal to Q's: S itself
\* unless an earlier entry with that embedding stores another summary.
C6_InsertThenLookupAmended ==
    (apiLast.op = "find" /\ apiLast.ok /\ apiLast.afterAdd.valid) =>
        LET same == {e \in cache : Similarity(apiLast.query, e) = One}
        IN  /\ apiLast.res.found
            /\ apiLast.res.similarity = One
            /\ apiLast.res.similarity >= apiLast.threshold
            /\ \E e \in same : e.summary = apiLast.res.summary
            /\ \E e \in same : e.summary = apiLast.afterAdd.summary
            /\ (\A e \in same : e.summary = apiLast.afterAdd.summary)
                    => apiLast.res.summary = apiLast.afterAdd.summary

\* C6's case: the collection held another query's entry, (Q, S) was added
\* and the lookup of Q returned S.
C6_Witness ==
    /\ apiLast.op = "find" /\ apiLast.ok /\ apiLast.afterAdd.valid
    /\ Cardinality(cache) = 2
    /\ apiLast.res.found
    /\ apiLast.res.summary = apiLast.afterAdd.summary
    /\ apiLast.res.summary # ""

(***************************************************************************)
(* Properties of the pipeline (checked under Spec).                        *)
(***************************************************************************)
CompleteMiss(rn) ==
    rn.pc = "done" /\ rn.outcome.kind = "complete" /\ ~rn.outcome.is_cached

CompleteHit(rn) == rn.outcome.kind = "complete" /\ rn.outcome.is_cached

\* C7: when a run ends complete with is_cached False, the collection holds
\* an entry pairing the run's query with the returned summary.
C7_InsertBeforeComplete ==
    \A r \in Runs :
        CompleteMiss(run[r]) =>
            \E e \in cache :
                /\ e.query = run[r].query
                /\ e.summary = run[r].outcome.summary

\* C8: a run that hits the cache calls neither add_to_cache nor the search,
\* scrape_page or summarize_text, and leaves the collection as it found it.
C8_HitRunTouchesNothing ==
    \A r \in Runs :
        CompleteHit(run[r]) =>
            /\ run[r].nAdd = 0
            /\ run[r].nSearch = 0
            /\ run[r].fetched = <<>>
            /\ run[r].nSummarize = 0
            /\ cache = run[r].cache0

\* C8's case: a run of /search ended on a hit of a collection of two entries.
C8_Witness ==
    \E r \in Runs :
        /\ run[r].pc = "done"
        /\ CompleteHit(run[r])
        /\ run[r].mode = "post"
        /\ Cardinality(cache) = 2

\* C9: when a run for Q completed with is_cached False, the next run for Q,
\* with no administrative call in between and a lookup the store serves,
\* completes with is_cached True and the first run's summary.
C9_SecondRunHits ==
    \A r \in Runs :
        (/\ run[r].pc = "done"
         /\ run[r].again.valid
         /\ ~run[r].lookupFailed
         /\ run[r].outcome.kind = "complete") =>
            /\ run[r].outcome.is_cached
            /\ run[r].outcome.summary = run[r].again.summary

\* C10: when every provider returned an empty list, the run ends in the
\* no-results error without a page fetch or a summarizer call, and the
\* collection is as the run found it.
C10_NoResults ==
    \A r \in Runs :
        (/\ run[r].pc = "done"
         /\ Len(run[r].emptyProvs) = Len(search_methods)) =>
            /\ run[r].outcome.kind = "error"
            /\ run[r].outcome.message = "no_results"
            /\ run[r].fetched = <<>>
            /\ run[r].nSummarize = 0
            /\ run[r].nAdd = 0
            /\ cache = run[r].cache0

\* C10's case: both providers returned an empty list with status 200 to a
\* streaming run over a non-empty collection, and the run ended.
C10_Witness ==
    \E r \in Runs :
        /\ run[r].pc = "done"
        /\ run[r].mode = "sse"
        /\ run[r].emptyProvs = <<"empty", "empty">>
        /\ run[r].nSearch = 1
        /\ cache # {}

\* C11: when the search returned URLs and no fetched page yielded content,
\* the run ends in the no-content error, every one of the first URLs having
\* been fetched, without a summarizer call, and the collection is as the
\* run found it.
C11_NoContent ==
    \A r \in Runs :
        (/\ run[r].pc = "done"
         /\ run[r].nurls > 0
         /\ run[r].yielded = 0) =>
            /\ run[r].outcome.kind = "error"
            /\ run[r].outcome.message = "no_content"
            /\ Len(run[r].fetched) = TotalPages(run[r])
            /\ run[r].nSummarize = 0
            /\ run[r].nAdd = 0
            /\ cache = run[r].cache0

\* C11's case: three URLs, every fetch empty, too short or failed, and the
\* streaming run ended on the error event over a non-empty collection.
C11_Witness ==
    \E r \in Runs :
        /\ run[r].pc = "done"
        /\ run[r].mode = "sse"
        /\ run[r].nurls = 3
        /\ Len(run[r].fetched) = 3
        /\ run[r].yielded = 0
        /\ run[r].fetchFailed
        /\ run[r].events[Len(run[r].events)] = Event("error", 0)
        /\ cache # {}

\* C12: when every model call of the summarizer failed, so that its result
\* is its fallback text, the run ends in an error outcome: no complete
\* outcome is reported and add_to_cache is not called.
C12_SummarizationError ==
    \A r \in Runs :
        (run[r].pc = "done" /\ run[r].modelFailed) =>
            /\ run[r].outcome.kind = "error"
            /\ run[r].nAdd = 0

\* C13: a lookup during which the store raised is a miss to the run: the
\* run reports neither a cached result nor an error for it, and goes on to
\* the search, which it calls next.
C13_LookupFailureIsMiss ==
    \A r \in Runs :
        run[r].lookupFailed =>
            /\ run[r].nLookup = 1
            /\ ~CompleteHit(run[r])
            /\ run[r].pc = "searching" \/ run[r].nSearch = 1
            /\ run[r].pc = "searching" =>
                /\ run[r].outcome = NoOutcome
                /\ run[r].mode = "sse" =>
                    run[r].events[Len(run[r].events)] = Event("searching", 15)

\* C13's case: the store raised in the lookup of a query the collection
\* held an entry for, and the run searched, summarized and ended complete
\* with is_cached False.
C13_Witness ==
    \E r \in Runs :
        /\ run[r].lookupFailed
        /\ \E e \in run[r].cache0 : e.query = run[r].query /\ e.summary # ""
        /\ CompleteMiss(run[r])
        /\ run[r].nSearch = 1

\* C14: a call of add_to_cache or delete_cache_item during which the store
\* raised returns to its caller something other than what the successful
\* call returns, and leaves the collection as it was.
C14_WriteFailureReported ==
    [][(apiLast'.op \in {"add", "delete"} /\ ~apiLast'.ok) =>
            /\ cache' = cache
            /\ apiLast'.op = "add" => apiLast'.ret # AddToCacheReturn(FALSE)
            /\ apiLast'.op = "delete" =>
                    apiLast'.ret # DeleteCacheItemReturn(FALSE)]_vars

Taxonomy == {"ValidationError", "NoResultsError", "NoContentError",
             "SummarizationError", "CacheError", "RetrievalTransportError"}

\* The category a terminal error of the code names: its fixed message, or
\* none for the text of an exception.
TagOf(message) ==
    CASE message = "invalid"    -> "ValidationError"
      [] message = "no_results" -> "NoResultsError"
      [] message = "no_content" -> "NoContentError"
      [] OTHER                  -> "untagged"

\* C15: every run that ends in an error presents it with one of the tags of
\* the taxonomy, and no exception of a collaborator leaves the handler.
C15_ErrorsTagged ==
    \A r \in Runs :
        run[r].pc = "done" =>
            /\ run[r].outcome.kind # "raised"
            /\ run[r].outcome.kind = "error" =>
                    TagOf(run[r].outcome.message) \in Taxonomy

(***************************************************************************)
(* Properties of the event stream (checked under SpecFair).                *)
(***************************************************************************)
TerminalEvent(e) == e.stage \in {"complete", "error"}

\* The terminal events of a stream are at most its last event, emitted by
\* the step that ends the run: complete with progress 100 and the outcome
\* fields, or error with progress 0; a streaming run that ended has one.
OneTerminalEvent(rn) ==
    LET ev == rn.events
    IN  /\ \A k \in 1..Len(ev) :
            TerminalEvent(ev[k]) =>
                /\ k = Len(ev)
                /\ rn.pc = "done"
                /\ ev[k].stage = "complete" =>
                    /\ ev[k].progress = 100
                    /\ rn.outcome.kind = "complete"
                /\ ev[k].stage = "error" =>
                    /\ ev[k].progress = 0
                    /\ rn.outcome.kind = "error"
        /\ (rn.pc = "done" /\ rn.mode = "sse") =>
            /\ ev # <<>>
            /\ TerminalEvent(ev[Len(ev)])

\* C16: every run that is not killed ends, and the stream of a run holds
\* exactly one terminal event once it has ended, none before, and nothing
\* after it.
C16_OneTerminalEvent ==
    /\ [](\A r \in Runs : OneTerminalEvent(run[r]))
    /\ \A r \in Runs :
        (run[r].pc \notin {"idle", "done"}) ~> (run[r].pc = "done")

\* C16's case: a streaming run went through every stage and ended on the
\* complete event of a miss, its ninth event.
C16_Witness ==
    \E r \in Runs :
        /\ run[r].pc = "done"
        /\ run[r].mode = "sse"
        /\ Len(run[r].events) = 9
        /\ run[r].events[9] = Event("complete", 100)
        /\ run[r].outcome.kind = "complete"
        /\ ~run[r].outcome.is_cached

StagesOf(ev) == [k \in 1..Len(ev) |-> ev[k].stage]

IsPrefix(s, t) == Len(s) <= Len(t) /\ s = SubSeq(t, 1, Len(s))

HitStages == <<"validating", "cache", "complete">>

\* The stages of a miss that fetches n URLs.
MissStages(n) ==
    <<"validating", "cache", "searching", "found">>
        \o [k \in 1..n |-> "scraping"]
        \o <<"summarizing", "caching", "complete">>

\* The stages are a prefix of the hit or of the miss sequence, or such a
\* prefix, short of complete, followed by one error.
StagesInOrder(stages, n) ==
    LET cut  == stages # <<>> /\ stages[Len(stages)] = "error"
        body == IF cut THEN SubSeq(stages, 1, Len(stages) - 1) ELSE stages
    IN  /\ IsPrefix(body, HitStages) \/ IsPrefix(body, MissStages(n))
        /\ cut => (body = <<>> \/ body[Len(body)] # "complete")

\* Each collaborator is called at most once and only after the one before
\* it: the search after the lookup, a fetch after the search, the
\* summarizer after the last fetch, the insert after the summarizer.
CallsInOrder(rn) ==
    /\ rn.nLookup <= 1
    /\ rn.nSearch <= rn.nLookup
    /\ rn.fetched # <<>> => rn.nSearch = 1
    /\ rn.nSummarize <= 1
    /\ rn.nSummarize = 1 => (rn.nurls > 0 /\ Len(rn.fetched) = TotalPages(rn))
    /\ rn.nAdd <= rn.nSummarize

\* Each event announces one call, made by the next step of the run: no
\* call without its event, no event without its call, one scraping event
\* for each fetch.
StagesMatchCalls(rn) ==
    LET stages   == StagesOf(rn.events)
        Count(s) == Cardinality({k \in 1..Len(stages) : stages[k] = s})
        Made(s)  == Count(s) - (IF rn.pc = s THEN 1 ELSE 0)
    IN  /\ rn.nLookup = Made("cache")
        /\ rn.nSearch = Made("searching")
        /\ rn.fetched # <<>> => Count("found") = 1
        /\ Len(rn.fetched) = Made("scraping")
        /\ rn.nSummarize = Made("summarizing")
        /\ rn.nAdd = Made("caching")

\* C17: the stages of a run are a prefix of validating, cache, then
\* complete (hit) or searching, found, one scraping per fetched URL,
\* summarizing, caching, complete (miss), optionally cut short by one
\* error; no stage is skipped or reordered; a run whose query was
\* classified invalid ends in the error with no lookup, search, fetch,
\* summarizer call or insert.
C17_StageOrder ==
    \A r \in Runs :
        /\ CallsInOrder(run[r])
        /\ run[r].mode = "sse" =>
            /\ StagesInOrder(StagesOf(run[r].events), TotalPages(run[r]))
            /\ StagesMatchCalls(run[r])
        /\ (run[r].outcome.kind = "error"
                /\ run[r].outcome.message = "invalid") =>
            /\ run[r].pc = "done"
            /\ run[r].mode = "sse" =>
                    StagesOf(run[r].events) = <<"validating", "error">>
            /\ run[r].nLookup = 0
            /\ run[r].nSearch = 0
            /\ run[r].fetched = <<>>
            /\ run[r].nSummarize = 0
            /\ run[r].nAdd = 0
            /\ cache = run[r].cache0

\* C17's case: a streaming run whose query was classified invalid ended on
\* the error event, over a non-empty collection.
C17_Witness ==
    \E r \in Runs :
        /\ run[r].pc = "done"
        /\ run[r].mode = "sse"
        /\ run[r].outcome.message = "invalid"
        /\ StagesOf(run[r].events) = <<"validating", "error">>
        /\ cache # {}

\* C18: a run fetches at most 5 pages, the first URLs of the list, each
\* position once and in list order; the summarizer's input holds one
\* content for each fetch that yielded one and nothing for the others, and
\* the summarizer is called only after the last of these fetches.
C18_FetchOncePerPosition ==
    \A r \in Runs :
        /\ Len(run[r].fetched) <= 5
        /\ Len(run[r].fetched) <= run[r].nurls
        /\ \A k \in 1..Len(run[r].fetched) : run[r].fetched[k] = k
        /\ run[r].contents = run[r].yielded
        /\ run[r].contents <= Len(run[r].fetched)
        /\ run[r].pc \in {"summarizing", "caching"} =>
                Len(run[r].fetched) = TotalPages(run[r])
        /\ run[r].outcome.kind = "complete" /\ ~run[r].outcome.is_cached =>
                /\ Len(run[r].fetched) = TotalPages(run[r])
                /\ run[r].outcome.pages_scraped = run[r].yielded

\* C18's case: five URLs, each fetched once, three of them without
\* content, and the run ended complete on the two contents.
C18_Witness ==
    \E r \in Runs :
        /\ run[r].pc = "done"
        /\ run[r].nurls = 5
        /\ run[r].fetched = <<1, 2, 3, 4, 5>>
        /\ run[r].yielded = 2
        /\ run[r].outcome.kind = "complete"
        /\ run[r].outcome.pages_scraped = 2

\* C19: a failed fetch yields no content and does not end the run: the
\* remaining URLs are fetched, and when a fetched page yielded content the
\* run ends complete.
C19_FetchFailureIsolated ==
    \A r \in Runs :
        /\ (run[r].fetchFailed /\ run[r].pc # "scraping") =>
                Len(run[r].fetched) = TotalPages(run[r])
        /\ (run[r].fetchFailed /\ run[r].pc = "done"
                /\ run[r].yielded >= 1) =>
                run[r].outcome.kind = "complete"

(***************************************************************************)
(* Properties of two concurrent runs (checked under SpecConc).             *)
(***************************************************************************)
\* C20: nothing between the lookup and the insert of a run looks at what
\* another run stored meanwhile: an insert the store accepts adds one entry
\* under an id no entry has, for the run's query and summary, whatever the
\* collection holds, an entry for the same query text included; a refused
\* insert changes nothing.  So two overlapping runs for one query that both
\* missed leave two entries with the same query text.
C20_InsertNeverChecks ==
    /\ [](\A e \in cache : \A f \in cache : e.id = f.id => e = f)
    /\ [][\A r \in Runs :
            (run[r].pc = "caching" /\ run'[r].pc = "done") =>
                \/ cache' = cache
                \/ \E e \in cache' :
                    /\ e.id \notin {f.id : f \in cache}
                    /\ e.query = run[r].query
                    /\ e.summary = run[r].summary
                    /\ cache' = cache \cup {e}]_vars

\* C20's case: two runs for the same query, both started on the empty
\* collection, both served a miss by the store, both ended complete with
\* is_cached False, and the collection holds two entries with that query
\* text, with the same non-empty summary, under distinct ids.
C20_Witness ==
    /\ run[1].query = run[2].query
    /\ \A r \in Runs :
        /\ CompleteMiss(run[r])
        /\ ~run[r].lookupFailed
        /\ run[r].cache0 = {}
        /\ run[r].outcome.summary = "s1"
    /\ \E e \in cache : \E f \in cache :
        /\ e.id # f.id
        /\ e.query = run[1].query /\ f.query = run[1].query
        /\ e.summary = "s1" /\ f.summary = "s1"

(***************************************************************************)
(* Single functions: each call starts from arguments drawn from the        *)
(* function's inputs and applies the function once.                        *)
(***************************************************************************)
FunctionInputs ==
    SummarizeWithAiInputs \cup FinalTrimInputs \cup PickleFindInputs
        \cup FilterInputs

InitFunctions ==
    /\ cache = {}
    /\ apiLast = NoCall
    /\ clock = 0
    /\ searchLog = <<>>
    /\ lastSearch = NoSearch
    /\ run = [r \in Runs |-> IdleRun]
    /\ fcall \in FunctionInputs

NextFunctions ==
    \/ CallSummarizeWithAi
    \/ CallFinalTrim
    \/ CallPickleFind
    \/ CallFilterQualityUrls

SpecFunctions == InitFunctions /\ [][NextFunctions]_vars

\* The two handlers side by side.
InitBoth ==
    /\ cache = {}
    /\ apiLast = NoCall
    /\ clock = 0
    /\ searchLog = <<>>
    /\ lastSearch = NoSearch
    /\ run = [r \in Runs |-> IdleRun]
    /\ fcall \in BothInputs

NextBoth ==
    \/ BothClassify
    \/ BothLookup
    \/ BothSearch
    \/ BothFound
    \/ BothScrape
    \/ BothSummarize
    \/ BothCaching

SpecBoth == InitBoth /\ [][NextBoth]_vars

(***************************************************************************)
(* Properties of the summarizer's functions.                               *)
(***************************************************************************)
\* Word w of the input reaches the model in some invocation.
Summarized(w) ==
    \E k \in 1..Len(fcall.invocations) :
        fcall.invocations[k].first <= w /\ w <= fcall.invocations[k].last

\* C21: summarize_with_ai splits its input into chunks of chunk-size words
\* and summarizes each: an input shorter than the chunk size makes one
\* model invocation, an input of 3 * chunk size words makes three, and no
\* word of the input fails to reach the model.
C21_ChunkedSummarization ==
    (fcall.fn = "summarize_with_ai" /\ fcall.done) =>
        /\ fcall.nwords < ChunkWords => Len(fcall.invocations) = 1
        /\ fcall.nwords = 3 * ChunkWords => Len(fcall.invocations) = 3
        /\ \A w \in 1..fcall.nwords : Summarized(w)

\* C22: the final trim keeps whole sentences, and what it returns exceeds
\* the character budget by no more than one sentence: without its last
\* sentence the result fits the budget.
C22_TrimWithinBudget ==
    (fcall.fn = "final_trim" /\ fcall.done) =>
        /\ IsPrefix(fcall.result, fcall.sentences)
        /\ fcall.result # <<>> =>
               JoinedLength(SubSeq(fcall.result, 1, Len(fcall.result) - 1))
                   <= MaxSummaryChars

Matches(term, e) == Contains(Lower(term), Lower(Chars(e.query)))

\* C24: delete_cache_by_query removes every entry whose query text contains
\* the term case-insensitively and no other entry, returns the number of
\* entries it removed, and leaves no entry whose query text contains the
\* term.
C24_DeleteByText ==
    apiLast.op = "delete_by_query" =>
        /\ cache = {e \in apiLast.before : ~Matches(apiLast.term, e)}
        /\ apiLast.count = Cardinality(apiLast.before \ cache)
        /\ \A e \in cache : ~Matches(apiLast.term, e)

(***************************************************************************)
(* Properties of the pickle cache of the command-line pipeline.            *)
(***************************************************************************)
\* C25: cache.py's find_similar_query returns the summary and similarity of
\* the stored entry nearest to the query whenever that similarity is at or
\* above the threshold, in whatever order the entries were inserted.
C25_PickleReturnsNearest ==
    (fcall.fn = "cache.find_similar_query" /\ fcall.done
        /\ fcall.entries # <<>>) =>
        LET stored == {fcall.entries[k] : k \in 1..Len(fcall.entries)}
            best   == BestSimilarity(stored, fcall.new_query)
        IN  best >= fcall.threshold =>
                /\ fcall.result.found
                /\ fcall.result.similarity = best
                /\ \E e \in stored :
                        /\ Similarity(fcall.new_query, e) = best
                        /\ e.summary = fcall.result.summary

(***************************************************************************)
(* Properties of the pipeline: the hit branch, the two routes, progress.   *)
(***************************************************************************)
\* The lookup of run rn was served and its nearest entry is at or above the
\* default threshold.
LookupFound(rn) ==
    /\ rn.nLookup = 1
    /\ ~rn.lookupFailed
    /\ rn.cache0 # {}
    /\ BestSimilarity(rn.cache0, rn.query) >= DefaultThreshold

\* C26: whenever the lookup finds an entry at or above the threshold, the
\* run takes the hit branch, whatever summary the entry stores: it ends
\* complete with is_cached True, without a search and without an insert.
C26_FoundEntryIsHit ==
    \A r \in Runs :
        LookupFound(run[r]) =>
            /\ run[r].pc = "done"
            /\ CompleteHit(run[r])
            /\ run[r].nSearch = 0
            /\ run[r].nAdd = 0

(***************************************************************************)
(* Properties of the URL filter.                                           *)
(***************************************************************************)
\* The URL's host matches an entry of BAD_DOMAINS.
OnBadDomain(url) ==
    /\ url # InvalidUrl
    /\ \E k \in 1..Len(BAD_DOMAINS) : Contains(BAD_DOMAINS[k], Netloc(url))

HasScore100(url) == GetDomainScore(url) = 100
HasScore50(url) == GetDomainScore(url) = 50
HasScore25(url) == GetDomainScore(url) = 25

\* C27: filter_quality_urls returns a sub-list of its input with no URL on
\* a host matching BAD_DOMAINS, in descending order of score, the URLs of
\* equal score in their input order.
C27_FilterDropsBadDomains ==
    (fcall.fn = "filter_quality_urls" /\ fcall.done) =>
        /\ \A k \in 1..Len(fcall.result) : ~OnBadDomain(fcall.result[k])
        /\ \A k \in 1..(Len(fcall.result) - 1) :
                GetDomainScore(fcall.result[k])
                    >= GetDomainScore(fcall.result[k + 1])
        /\ SelectSeq(fcall.result, HasScore100)
                = SelectSeq(fcall.urls, HasScore100)
        /\ SelectSeq(fcall.result, HasScore50)
                = SelectSeq(fcall.urls, HasScore50)
        /\ SelectSeq(fcall.result, HasScore25)
                = SelectSeq(fcall.urls, HasScore25)
        /\ Len(fcall.result) <= Len(fcall.urls)

\* Both handlers have ended.
BothDone ==
    fcall.fn = "both" /\ fcall.sse.pc = "done" /\ fcall.post.pc = "done"

\* C28: for the same query and the same answers of the collaborators,
\* those that raise included, generate_progress and search report the same
\* kind of outcome with the same fields, and leave the collection in the
\* same state.
C28_SameOutcomeBothRoutes ==
    BothDone =>
        /\ fcall.sse.outcome.kind = fcall.post.outcome.kind
        /\ fcall.sse.outcome = fcall.post.outcome
        /\ fcall.cacheSse = fcall.cachePost

\* The events of a run make progress: each is within 0..100, and each
\* after the first is above the one before it, or is the error event, with
\* progress 0, that ends the run.
ProgressIncreases(rn) ==
    /\ \A k \in 1..Len(rn.events) : rn.events[k].progress \in 0..100
    /\ \A k \in 1..Len(rn.events) :
            rn.events[k].stage # "error" => rn.events[k].progress > 0
    /\ \A k \in 2..Len(rn.events) :
            \/ rn.events[k].progress > rn.events[k - 1].progress
            \/ /\ rn.events[k].stage = "error"
               /\ rn.events[k].progress = 0
               /\ k = Len(rn.events)
               /\ rn.pc = "done"

\* C29: in every run the progress values of the events other than the
\* error event are strictly increasing from the first event to the last
\* and lie in 0..100, for one to five scraping events; only the error event
\* that ends a run has progress 0.
C29_ProgressMonotone ==
    \A r \in Runs : ProgressIncreases(run[r])

\* C29's case: a streaming run fetched five pages and completed: twelve
\* events, from progress 5 to the fifth scraping event at 75 and to 100.
C29_Witness ==
    \E r \in Runs :
        /\ run[r].pc = "done"
        /\ run[r].mode = "sse"
        /\ Len(run[r].events) = 12
        /\ run[r].events[1].progress = 5
        /\ run[r].events[9] = Event("scraping", 75)
        /\ run[r].events[12] = Event("complete", 100)

====
